---- MODULE Spec2Model ----
(***************************************************************************)
(* Revision-gated response cache of the client feature API                 *)
(* (FeatureController: getAll, calculateMeta, featuresAndSegments).        *)
(*                                                                         *)
(* Requests are handled cooperatively: a handler runs without interruption *)
(* between two awaits that wait on I/O, so every action below is the code  *)
(* between two such suspension points.                                     *)
(*                                                                         *)
(* memoizee(fn, {promise: true, maxAge, normalizer}) is a library; it is   *)
(* modelled by its documented behaviour: the promise returned by fn is     *)
(* stored under the normalizer's key at call time, every call that finds   *)
(* the key returns the stored promise, a rejected promise deletes its key, *)
(* and the maxAge timer of a key is armed when its promise resolves and    *)
(* deletes the key when it fires.                                          *)
(*                                                                         *)
(* hashSum (library hash-sum) folds the keys of an object in sorted key    *)
(* order and the elements of an array in array order into a 32-bit sum.    *)
(* The model keeps the folded token sequence itself and so treats the      *)
(* final 32-bit sum as collision-free on the queries it enumerates.        *)
(***************************************************************************)
EXTENDS Integers, Sequences, FiniteSets, TLC

\* ---------------------------------------------------------------- bounds
NClients == 2        \* clients polling the list endpoint concurrently
MaxRequests == 2     \* list requests issued in one behaviour of Spec
MaxPolls == 3        \* list requests issued in one behaviour of PollSpec
MaxRevision == 2     \* the revision oracle starts at 1 and stops growing here
maxAge == 1          \* clientFeatureCaching.maxAge, in clock ticks
MaxStoreCalls == 3   \* ProjectStore calls made in one behaviour of StoreSpec

\* ------------------------------------------------------------- constants
version == 2
ALL == "*"

Clients == 1..NClients
Revisions == 1..MaxRevision

\* JavaScript values of query parameters and headers, tagged by type
Undefined == [t |-> "undefined"]
Str(s) == [t |-> "string", v |-> s]
Arr(a) == [t |-> "array", v |-> a]

\* !x for a parameter value: undefined and "" are falsy, every array
\* (the empty one too) is truthy
Falsy(x) == x.t = "undefined" \/ (x.t = "string" /\ x.v = "")

\* ------------------------------------------------- callers and requests
\* isAllProjects (types/models/api-token): the project list is exactly [ALL]
isAllProjects(projects) == projects = <<ALL>>

Admin == [kind |-> "User"]
ApiAll == [kind |-> "ApiUser", projects |-> <<ALL>>, environment |-> ALL]
ApiScoped == [kind |-> "ApiUser", projects |-> <<"A", "B">>,
              environment |-> "production"]

ApiProjects == [kind |-> "ApiUser", projects |-> <<"A", "B">>, environment |-> ALL]
ApiEnvironment == [kind |-> "ApiUser", projects |-> <<ALL>>,
                   environment |-> "production"]
Users == {Admin, ApiAll, ApiScoped, ApiProjects, ApiEnvironment}

NoParams == [tag |-> Undefined, project |-> Undefined, namePrefix |-> Undefined,
             environment |-> Undefined, inlineSegmentConstraints |-> Undefined]

\* The raw requests a behaviour draws from: caller identity, query
\* parameters and whether the declared client spec supports 'segments'.
Requests ==
    { [user |-> Admin, query |-> NoParams, supportsSegments |-> TRUE],
      [user |-> ApiScoped,
       query |-> [NoParams EXCEPT !.project = Str("C")],
       supportsSegments |-> FALSE],
      [user |-> ApiAll,
       query |-> [NoParams EXCEPT !.tag = Str(<<"badformat">>)],
       supportsSegments |-> TRUE] }

\* The raw requests the normalizer is applied to in NormSpec: every caller
\* with a client-supplied project and environment; a client-supplied
\* inlineSegmentConstraints parameter with either declared capability;
\* project and tag filters absent, empty, scalar and as lists in two orders;
\* namePrefix and environment absent, empty and set.
TagA == <<"t", ":", "a">>
TagB == <<"t", ":", "b">>
ProjectParams == {Undefined, Str(""), Arr(<<>>), Str("C"),
                  Arr(<<Str("A"), Str("B")>>), Arr(<<Str("B"), Str("A")>>)}
TagParams == {Undefined, Str(""), Arr(<<>>), Str(TagA),
              Arr(<<Str(TagA), Str(TagB)>>), Arr(<<Str(TagB), Str(TagA)>>)}
RawRequests ==
    {[user |-> u,
      query |-> [NoParams EXCEPT !.project = pr, !.environment = e],
      supportsSegments |-> TRUE] :
        u \in Users, pr \in {Undefined, Str("C"), Arr(<<Str("A"), Str("B")>>)},
        e \in {Undefined, Str("dev")}}
    \cup
    {[user |-> Admin,
      query |-> [NoParams EXCEPT !.inlineSegmentConstraints = i, !.project = pr],
      supportsSegments |-> ss] :
        i \in {Undefined, Str("true"), Str("false")},
        pr \in {Undefined, Str("C")}, ss \in BOOLEAN}
    \cup
    {[user |-> Admin,
      query |-> [NoParams EXCEPT !.project = pr, !.tag = tg],
      supportsSegments |-> TRUE] : pr \in ProjectParams, tg \in TagParams}
    \cup
    {[user |-> Admin,
      query |-> [NoParams EXCEPT !.namePrefix = n, !.environment = e],
      supportsSegments |-> ss] :
        n \in {Undefined, Str(""), Str("f")},
        e \in {Undefined, Str(""), Str("dev")}, ss \in BOOLEAN}

\* ------------------------------------------------------ query normalizer
paramToArray(param) ==
    IF Falsy(param) THEN param
    ELSE IF param.t = "array" THEN param ELSE Arr(<<param>>)

\* String.prototype.split(':') on a string given as its sequence of
\* tokens, ":" being the separator token
RECURSIVE SplitFrom(_, _, _)
SplitFrom(s, i, cur) ==
    IF i > Len(s) THEN <<cur>>
    ELSE IF s[i] = ":" THEN <<cur>> \o SplitFrom(s, i + 1, <<>>)
    ELSE SplitFrom(s, i + 1, Append(cur, s[i]))
split(s) == SplitFrom(s, 1, <<>>)

\* querySchema (schema/feature-schema): every tag is "<type>:<value>"
TagWellFormed(tg) ==
    /\ tg.t = "string"
    /\ \E i \in 2..(Len(tg.v) - 1) :
          /\ tg.v[i] = ":"
          /\ \A j \in 1..(i - 1) : tg.v[j] # ":"
querySchemaValid(params) ==
    /\ params.tag.t \in {"undefined", "array"}
    /\ params.project.t \in {"undefined", "array"}
    /\ params.tag.t = "array" =>
          \A i \in 1..Len(params.tag.v) : TagWellFormed(params.tag.v[i])
    /\ params.namePrefix.t = "string" => params.namePrefix.v # ""
    /\ params.environment.t = "string" => params.environment.v # ""

\* the validated object: the keys whose value is defined
querySchemaValue(params) ==
    LET keys == {k \in DOMAIN params : params[k].t # "undefined"}
    IN  [k \in keys |->
            IF params[k].t = "array"
            THEN [i \in 1..Len(params[k].v) |-> params[k].v[i].v]
            ELSE params[k].v]

ValidationError == [error |-> "ValidationError"]

\* a validation whose rejection goes unnoticed
IsErrorNever(q) == FALSE

IsError(q) == "error" \in DOMAIN q

EmptyQuery == [k \in {} |-> Undefined]

prepQuery(params) ==
    IF /\ Falsy(params.tag) /\ Falsy(params.project)
       /\ Falsy(params.namePrefix) /\ Falsy(params.environment)
       /\ ~params.inlineSegmentConstraints.v
    THEN EmptyQuery
    ELSE LET validated == [params EXCEPT !.tag = paramToArray(params.tag),
                                         !.project = paramToArray(params.project)]
         IN  IF ~querySchemaValid(validated) THEN ValidationError
             ELSE LET query == querySchemaValue(validated)
                  IN  IF "tag" \in DOMAIN query
                      THEN [query EXCEPT !.tag =
                               [i \in 1..Len(query.tag) |-> split(query.tag[i])]]
                      ELSE query

\* { ...override, ...query }: what the client supplied wins over the scope
resolveQueryClientWins(req) ==
    LET user == req.user
        withProject ==
            IF /\ user.kind = "ApiUser" /\ ~isAllProjects(user.projects)
               /\ req.query.project = Undefined
            THEN [req.query EXCEPT !.project =
                     Arr([i \in 1..Len(user.projects) |-> Str(user.projects[i])])]
            ELSE req.query
        withEnvironment ==
            IF /\ user.kind = "ApiUser" /\ user.environment # ALL
               /\ req.query.environment = Undefined
            THEN [withProject EXCEPT !.environment = Str(user.environment)]
            ELSE withProject
        inlineSegmentConstraints == ~req.supportsSegments
    IN  prepQuery([withEnvironment EXCEPT !.inlineSegmentConstraints =
                      [t |-> "boolean", v |-> inlineSegmentConstraints]])

\* { ...override, inlineSegmentConstraints, ...query }: the client's own
\* inlineSegmentConstraints parameter, when sent, wins over the computed one
resolveQueryClientInline(req) ==
    LET user == req.user
        withProject ==
            IF user.kind = "ApiUser" /\ ~isAllProjects(user.projects)
            THEN [req.query EXCEPT !.project =
                     Arr([i \in 1..Len(user.projects) |-> Str(user.projects[i])])]
            ELSE req.query
        withEnvironment ==
            IF user.kind = "ApiUser" /\ user.environment # ALL
            THEN [withProject EXCEPT !.environment = Str(user.environment)]
            ELSE withProject
        inlineSegmentConstraints ==
            IF req.query.inlineSegmentConstraints = Undefined
            THEN ~req.supportsSegments
            ELSE req.query.inlineSegmentConstraints = Str("true")
    IN  prepQuery([withEnvironment EXCEPT !.inlineSegmentConstraints =
                      [t |-> "boolean", v |-> inlineSegmentConstraints]])

resolveQuery(req) ==
    LET user == req.user
        withProject ==
            IF user.kind = "ApiUser" /\ ~isAllProjects(user.projects)
            THEN [req.query EXCEPT !.project =
                     Arr([i \in 1..Len(user.projects) |-> Str(user.projects[i])])]
            ELSE req.query
        withEnvironment ==
            IF user.kind = "ApiUser" /\ user.environment # ALL
            THEN [withProject EXCEPT !.environment = Str(user.environment)]
            ELSE withProject
        inlineSegmentConstraints == ~req.supportsSegments
    IN  prepQuery([withEnvironment EXCEPT !.inlineSegmentConstraints =
                      [t |-> "boolean", v |-> inlineSegmentConstraints]])

\* ------------------------------------------------- fingerprint and etag
KeyOrder == <<"environment", "inlineSegmentConstraints", "namePrefix",
              "project", "tag">>

hashSum(query) ==
    LET Present(k) == k \in DOMAIN query
        keys == SelectSeq(KeyOrder, Present)
    IN  [i \in 1..Len(keys) |-> <<keys[i], query[keys[i]]>>]

\* an etag that leaves the revision out
FormatEtagNoRevision(queryHash, revisionId) == <<"\"", queryHash, ":", 0, "\"">>

\* `"${queryHash}:${revisionId}"`
FormatEtag(queryHash, revisionId) == <<"\"", queryHash, ":", revisionId, "\"">>

\* an etag made of the hash of the unfiltered query
calculateMetaUnfiltered(query, revisionId) ==
    [revisionId |-> revisionId,
     etag |-> FormatEtag(hashSum(EmptyQuery), revisionId),
     queryHash |-> hashSum(query)]

calculateMeta(query, revisionId) ==
    LET queryHash == hashSum(query)
    IN  [revisionId |-> revisionId,
         etag |-> FormatEtag(queryHash, revisionId),
         queryHash |-> queryHash]

\* every etag a response to an enumerated request can carry
QueryHashes == {hashSum(resolveQuery(r)) :
                   r \in {x \in Requests : ~IsError(resolveQuery(x))}}
Etags == {FormatEtag(h, r) : h \in QueryHashes, r \in Revisions}

\* --------------------------------------------- ProjectStore: what it holds
DEFAULT_ENV == "default"
ProjectIds == {"default", "p1"}
Names == {"n1", "n2"}
Environments == {DEFAULT_ENV, "production"}

\* ------------------------------------------------------------------ state
VARIABLES
    enabled,             \* config.clientFeatureCaching.enabled
    cache,               \* memoizee: key |-> [promise, waiting, timer]
    promises,            \* every call of resolveFeaturesAndSegments so far
    revision,            \* what getMaxRevisionId() returns now
    sincePopulated,      \* key |-> ticks since its entry was last populated
    nRequests,           \* list requests received so far
    nGetMaxRevisionId,   \* calls of configurationRevisionService.getMaxRevisionId
    nGetClientFeatures,  \* calls of featureToggleServiceV2.getClientFeatures
    nGetActive,          \* calls of segmentService.getActive
    nFeaturesAndSegments, \* calls of this.featuresAndSegments
    pc,                  \* per client: where the handler of its request is
    request,             \* per client: req (user, query, client spec)
    userVersion,         \* per client: req.headers['if-none-match']
    query,               \* per client: the normalized query
    meta,                \* per client: the result of calculateMeta
    awaited,             \* per client: the promise featuresAndSegments returned
    found,               \* per client: what that call found under its key
    toggles,             \* per client: what getFeatureToggle read from the store
    response,            \* per client: status, ETag header and body sent
    projects,            \* table projects: id |-> row
    projectEnvironments, \* table project_environments: a set of rows
    logger,              \* what ProjectStore wrote with logger.error
    storeResult,         \* the last ProjectStore call and what its caller got
    nStoreCalls          \* ProjectStore calls made so far

controllerVars == <<enabled, cache, promises, revision, sincePopulated, nRequests,
          nGetMaxRevisionId, nGetClientFeatures, nGetActive,
          nFeaturesAndSegments,
          pc, request, userVersion, query, meta, awaited, found, toggles,
          response>>
projectVars == <<projects, projectEnvironments, logger, storeResult,
                 nStoreCalls>>
vars == <<controllerVars, projectVars>>

storeVars == <<nGetClientFeatures, nGetActive, nFeaturesAndSegments>>
memoVars == <<cache, promises, sincePopulated>>
reqVars == <<pc, request, userVersion, query, meta, awaited, found, toggles,
            response>>

Pending == [st |-> "pending"]
Ok(d) == [st |-> "ok", data |-> d]
Failed == [st |-> "failed"]

NoResponse == [status |-> 0, ETag |-> Undefined, body |-> Undefined]

Init ==
    /\ enabled \in BOOLEAN
    /\ cache = [k \in {} |-> Undefined]
    /\ promises = <<>>
    /\ revision = 1
    /\ sincePopulated = [k \in {} |-> 0]
    /\ nRequests = 0
    /\ nGetMaxRevisionId = 0
    /\ nGetClientFeatures = 0
    /\ nGetActive = 0
    /\ nFeaturesAndSegments = 0
    /\ pc = [p \in Clients |-> "idle"]
    /\ request = [p \in Clients |-> Undefined]
    /\ userVersion = [p \in Clients |-> Undefined]
    /\ query = [p \in Clients |-> Undefined]
    /\ meta = [p \in Clients |-> Undefined]
    /\ awaited = [p \in Clients |-> 0]
    /\ found = [p \in Clients |-> "none"]
    /\ toggles = [p \in Clients |-> Undefined]
    /\ response = [p \in Clients |-> NoResponse]
    /\ projects = [k \in {"default"} |->
                      [id |-> k, name |-> "n1", description |-> "d",
                       health |-> Undefined, updated_at |-> Undefined,
                       change_request_enabled |-> Undefined]]
    /\ projectEnvironments =
          {[project_id |-> "default", environment_name |-> DEFAULT_ENV,
            change_request_enabled |-> FALSE]}
    /\ logger = <<>>
    /\ storeResult = Undefined
    /\ nStoreCalls = 0

\* ------------------------------------------------------- memoized resolver
Remove(f, k) == [x \in DOMAIN f \ {k} |-> f[x]]
Put(f, k, v) == [x \in DOMAIN f \cup {k} |-> IF x = k THEN v ELSE f[x]]

\* a key made of the revision alone
normalizerRevision(q, etag) == FormatEtag(<<>>, etag[4])

\* a key made of the fingerprint alone
normalizerFingerprint(q, etag) == FormatEtag(hashSum(q), 0)

\* memoizee normalizer: the cache key of a call with arguments (query, etag)
normalizer(q, etag) == etag

\* resolveFeaturesAndSegments: both store calls are issued at once and
\* Promise.all of them is returned. startedAt records what the revision
\* oracle returns at the moment the store calls are issued.
NewPromise(q, key) ==
    [key |-> key, query |-> q, features |-> Pending, segments |-> Pending,
     state |-> "pending", value |-> Undefined, startedAt |-> revision]

\* Promise.allSettled in place of Promise.all: settles when both calls have
PromiseAllSettledState(pr) ==
    IF pr.features.st = "pending" \/ pr.segments.st = "pending" THEN "pending"
    ELSE IF pr.features.st = "failed" \/ pr.segments.st = "failed" THEN "rejected"
    ELSE "resolved"

\* a combinator that never rejects: a failed read leaves it pending
PromiseAllHangsOnFailure(pr) ==
    IF pr.features.st = "ok" /\ pr.segments.st = "ok" THEN "resolved"
    ELSE "pending"

\* Promise.all: rejected by the first failure, resolved by the second success
PromiseAllState(pr) ==
    IF pr.features.st = "failed" \/ pr.segments.st = "failed" THEN "rejected"
    ELSE IF pr.features.st = "ok" /\ pr.segments.st = "ok" THEN "resolved"
    ELSE "pending"

\* memoizee, promise resolved: the entry stops waiting and, with maxAge,
\* its timer is armed
onSuccess(key) ==
    IF key \in DOMAIN cache /\ cache[key].waiting
    THEN /\ cache' = [cache EXCEPT ![key] =
                         [@ EXCEPT !.waiting = FALSE, !.timer = maxAge]]
         /\ sincePopulated' = Put(sincePopulated, key, 0)
    ELSE UNCHANGED <<cache, sincePopulated>>

\* a rejection that leaves the entry where it is
onFailureKeepsEntry(key) == UNCHANGED <<cache, sincePopulated>>

\* memoizee, promise rejected: the entry is deleted
onFailure(key) ==
    /\ cache' = IF key \in DOMAIN cache /\ cache[key].waiting
                THEN Remove(cache, key) ELSE cache
    /\ UNCHANGED sincePopulated

\* A store call of promise id settles; when that settles Promise.all, the
\* handlers memoizee attached to the promise run before any awaiting request
Settled(id, pr) ==
    LET old == promises[id]
        state == IF old.state # "pending" THEN old.state ELSE PromiseAllState(pr)
    IN  /\ promises' = [promises EXCEPT ![id] =
               [pr EXCEPT !.state = state,
                          !.value = IF state = "resolved"
                                    THEN <<pr.features.data, pr.segments.data>>
                                    ELSE Undefined]]
        /\ IF old.state = "pending" /\ state = "resolved" THEN onSuccess(old.key)
           ELSE IF old.state = "pending" /\ state = "rejected" THEN onFailure(old.key)
           ELSE UNCHANGED <<cache, sincePopulated>>

getClientFeaturesSettles(id, ok) ==
    /\ id \in 1..Len(promises)
    /\ promises[id].features.st = "pending"
    /\ Settled(id, [promises[id] EXCEPT !.features =
           IF ok THEN Ok([call |-> id, query |-> promises[id].query])
           ELSE Failed])
    /\ UNCHANGED <<projectVars, enabled, revision, nRequests, nGetMaxRevisionId, storeVars,
                   reqVars>>

\* a segment read whose failure is swallowed and replaced by an empty list
getActiveSettlesSwallowsFailure(id, ok) ==
    /\ id \in 1..Len(promises)
    /\ promises[id].segments.st = "pending"
    /\ Settled(id, [promises[id] EXCEPT !.segments =
           IF ok THEN Ok([call |-> id]) ELSE Ok([call |-> 0])])
    /\ UNCHANGED <<projectVars, enabled, revision, nRequests, nGetMaxRevisionId, storeVars,
                   reqVars>>

getActiveSettles(id, ok) ==
    /\ id \in 1..Len(promises)
    /\ promises[id].segments.st = "pending"
    /\ Settled(id, [promises[id] EXCEPT !.segments =
           IF ok THEN Ok([call |-> id]) ELSE Failed])
    /\ UNCHANGED <<projectVars, enabled, revision, nRequests, nGetMaxRevisionId, storeVars,
                   reqVars>>

\* a constructor that memoizes whatever the configuration says
IsMemoizedAlways == TRUE

\* constructor: featuresAndSegments is the memoized function when caching
\* is enabled and resolveFeaturesAndSegments itself otherwise
IsMemoized == enabled

\* a cache that only joins calls in flight
IsCachedWaiting(key) == key \in DOMAIN cache /\ cache[key].waiting

\* a cache that holds resolved values only
IsCachedResolved(key) == key \in DOMAIN cache /\ ~cache[key].waiting

\* the memoized function finds the key of the call in its cache
IsCached(key) == key \in DOMAIN cache

\* this.featuresAndSegments(query, etag) called by the request of client p
featuresAndSegments(p, q, etag) ==
    LET key == normalizer(q, etag)
        id == Len(promises) + 1
    IN  /\ nFeaturesAndSegments' = nFeaturesAndSegments + 1
        /\ IF IsMemoized /\ IsCached(key)
           THEN /\ awaited' = [awaited EXCEPT ![p] = cache[key].promise]
                /\ found' = [found EXCEPT ![p] =
                                IF cache[key].waiting THEN "waiting" ELSE "resolved"]
                /\ UNCHANGED <<cache, promises, nGetClientFeatures, nGetActive>>
           ELSE /\ promises' = Append(promises, NewPromise(q, key))
                /\ nGetClientFeatures' = nGetClientFeatures + 1
                /\ nGetActive' = nGetActive + 1
                /\ awaited' = [awaited EXCEPT ![p] = id]
                /\ found' = [found EXCEPT ![p] = "miss"]
                /\ cache' = IF IsMemoized
                            THEN Put(cache, key, [promise |-> id, waiting |-> TRUE,
                                                  timer |-> 0])
                            ELSE cache

\* ------------------------------------------------------------------ getAll
\* Client p sends a list request once its previous one is answered; it
\* sends no If-None-Match or the ETag of the last response a client has
\* received.
\* resolveQuery runs: a query that fails validation ends the request,
\* otherwise calculateMeta calls the revision oracle.
\* A client sends its first request only after the clients before it.
Start(p, req, inm) ==
    /\ pc[p] \in {"idle", "done"}
    /\ \A o \in Clients : o < p => pc[o] # "idle"
    /\ inm \in {Undefined} \cup {response[o].ETag : o \in Clients}
    /\ nRequests' = nRequests + 1
    /\ request' = [request EXCEPT ![p] = req]
    /\ userVersion' = [userVersion EXCEPT ![p] = inm]
    /\ meta' = [meta EXCEPT ![p] = Undefined]
    /\ awaited' = [awaited EXCEPT ![p] = 0]
    /\ found' = [found EXCEPT ![p] = "none"]
    /\ toggles' = [toggles EXCEPT ![p] = Undefined]
    /\ LET q == resolveQuery(req)
       IN  IF IsError(q)
           THEN /\ pc' = [pc EXCEPT ![p] = "done"]
                /\ query' = [query EXCEPT ![p] = Undefined]
                /\ response' = [response EXCEPT ![p] =
                                   [NoResponse EXCEPT !.status = 400]]
                /\ UNCHANGED nGetMaxRevisionId
           ELSE /\ pc' = [pc EXCEPT ![p] = "getMaxRevisionId"]
                /\ query' = [query EXCEPT ![p] = q]
                /\ response' = [response EXCEPT ![p] = NoResponse]
                /\ nGetMaxRevisionId' = nGetMaxRevisionId + 1
    /\ UNCHANGED <<projectVars, enabled, revision, memoVars, storeVars>>

\* the revision oracle produces its answer
getMaxRevisionId(p) ==
    /\ pc[p] = "getMaxRevisionId"
    /\ pc' = [pc EXCEPT ![p] = "calculateMeta"]
    /\ meta' = [meta EXCEPT ![p] = calculateMeta(query[p], revision)]
    /\ UNCHANGED <<projectVars, enabled, revision, memoVars, storeVars, nRequests,
                   nGetMaxRevisionId, request, userVersion, query, awaited,
                   found, toggles, response>>

\* the revision oracle fails: the request ends with a server error
getMaxRevisionIdFails(p) ==
    /\ pc[p] = "getMaxRevisionId"
    /\ pc' = [pc EXCEPT ![p] = "done"]
    /\ response' = [response EXCEPT ![p] = [NoResponse EXCEPT !.status = 500]]
    /\ UNCHANGED <<projectVars, enabled, revision, memoVars, storeVars, nRequests,
                   nGetMaxRevisionId, request, userVersion, query, meta, awaited,
                   found, toggles>>

\* a comparison of the fingerprints alone
EtagMatchesFingerprint(etag, inm) == inm.t = "string" /\ inm.v[2] = etag[2]

\* etag === userVersion
EtagMatches(etag, inm) == inm.t = "string" /\ inm.v = etag

\* a handler that calls featuresAndSegments before it compares the etags
GateResolvesFirst(p) ==
    /\ pc[p] = "calculateMeta"
    /\ LET etag == meta[p].etag
       IN  /\ featuresAndSegments(p, query[p], etag)
           /\ UNCHANGED sincePopulated
           /\ IF EtagMatches(etag, userVersion[p])
              THEN /\ response' = [response EXCEPT ![p] =
                                      [status |-> 304, ETag |-> Str(etag),
                                       body |-> Undefined]]
                   /\ pc' = [pc EXCEPT ![p] = "done"]
              ELSE /\ response' = [response EXCEPT ![p].ETag = Str(etag)]
                   /\ pc' = [pc EXCEPT ![p] = "featuresAndSegments"]
    /\ UNCHANGED <<projectVars, enabled, revision, nRequests, nGetMaxRevisionId, request,
                   userVersion, query, meta, toggles>>

\* getAll resumes with meta: the ETag header is set, then either 304 is
\* sent or featuresAndSegments is called and awaited
Gate(p) ==
    /\ pc[p] = "calculateMeta"
    /\ LET etag == meta[p].etag
       IN  IF EtagMatches(etag, userVersion[p])
           THEN /\ response' = [response EXCEPT ![p] =
                                   [status |-> 304, ETag |-> Str(etag),
                                    body |-> Undefined]]
                /\ pc' = [pc EXCEPT ![p] = "done"]
                /\ UNCHANGED <<memoVars, storeVars, awaited, found>>
           ELSE /\ response' = [response EXCEPT ![p].ETag = Str(etag)]
                /\ pc' = [pc EXCEPT ![p] = "featuresAndSegments"]
                /\ featuresAndSegments(p, query[p], etag)
                /\ UNCHANGED sincePopulated
    /\ UNCHANGED <<projectVars, enabled, revision, nRequests, nGetMaxRevisionId, request,
                   userVersion, query, meta, toggles>>

\* a response that carries the segments whatever the client supports
RespondAlwaysSegments(p) ==
    /\ pc[p] = "featuresAndSegments"
    /\ promises[awaited[p]].state # "pending"
    /\ pc' = [pc EXCEPT ![p] = "done"]
    /\ LET pr == promises[awaited[p]]
       IN  response' = [response EXCEPT ![p] =
              IF pr.state = "rejected" THEN [@ EXCEPT !.status = 500]
              ELSE [@ EXCEPT !.status = 200,
                             !.body = [version |-> version, features |-> pr.value[1],
                                       query |-> query[p], segments |-> pr.value[2],
                                       meta |-> meta[p]]]]
    /\ UNCHANGED <<projectVars, enabled, revision, memoVars, storeVars, nRequests,
                   nGetMaxRevisionId, request, userVersion, query, meta, awaited,
                   found, toggles>>

\* the awaited promise has settled: the payload is sent, or the rejection
\* is thrown out of the handler
Respond(p) ==
    /\ pc[p] = "featuresAndSegments"
    /\ promises[awaited[p]].state # "pending"
    /\ pc' = [pc EXCEPT ![p] = "done"]
    /\ LET pr == promises[awaited[p]]
           features == pr.value[1]
           segments == pr.value[2]
       IN  response' = [response EXCEPT ![p] =
              IF pr.state = "rejected" THEN [@ EXCEPT !.status = 500]
              ELSE IF request[p].supportsSegments
              THEN [@ EXCEPT !.status = 200,
                             !.body = [version |-> version, features |-> features,
                                       query |-> query[p], segments |-> segments,
                                       meta |-> meta[p]]]
              ELSE [@ EXCEPT !.status = 200,
                             !.body = [version |-> version, features |-> features,
                                       query |-> query[p], meta |-> meta[p]]]]
    /\ UNCHANGED <<projectVars, enabled, revision, memoVars, storeVars, nRequests,
                   nGetMaxRevisionId, request, userVersion, query, meta, awaited,
                   found, toggles>>

\* The client of a request that awaits featuresAndSegments goes away:
\* nothing cancels the resolution, the handler's continuation is of no
\* effect and no response reaches the client.
Abandon(p) ==
    /\ pc[p] = "featuresAndSegments"
    /\ pc' = [pc EXCEPT ![p] = "abandoned"]
    /\ UNCHANGED <<projectVars, enabled, revision, memoVars, storeVars, nRequests,
                   nGetMaxRevisionId, request, userVersion, query, meta, awaited,
                   found, toggles, response>>

\* -------------------------------------------------------- getFeatureToggle
\* Feature names are sequences of characters. The store answers a read
\* with a list of features; which features match a query is the store's
\* business, so every list over FeatureUniverse is a possible answer.
FeatureNames == {<<"f">>, <<"f", "x">>}
FeatureUniverse == {[name |-> <<"f">>, project |-> "A"],
                    [name |-> <<"f", "x">>, project |-> "A"],
                    [name |-> <<"g">>, project |-> "B"]}
StoreResults ==
    {<<>>} \cup {<<a>> : a \in FeatureUniverse}
           \cup {l \in FeatureUniverse \X FeatureUniverse : l[1] # l[2]}

\* toggles.find over names that start with the requested name
findByPrefix(list, name) ==
    LET StartsWith(t) == Len(t.name) >= Len(name)
                         /\ SubSeq(t.name, 1, Len(name)) = name
        hits == {i \in 1..Len(list) : StartsWith(list[i])}
    IN  IF hits = {} THEN Undefined
        ELSE list[CHOOSE i \in hits : \A j \in hits : i <= j]

\* toggles.find((t) => t.name === name): the first feature of that name
find(list, name) ==
    LET hits == {i \in 1..Len(list) : list[i].name = name}
    IN  IF hits = {} THEN Undefined
        ELSE list[CHOOSE i \in hits : \A j \in hits : i <= j]

\* Client p requests the single feature `name`: resolveQuery runs, then
\* getClientFeatures is called with namePrefix set to the name and awaited.
getFeatureToggle(p, req, name) ==
    /\ pc[p] \in {"idle", "done"}
    /\ \A o \in Clients : o < p => pc[o] # "idle"
    /\ nRequests' = nRequests + 1
    /\ request' = [request EXCEPT ![p] =
                      [user |-> req.user, query |-> req.query,
                       supportsSegments |-> req.supportsSegments,
                       params |-> [featureName |-> name]]]
    /\ userVersion' = [userVersion EXCEPT ![p] = Undefined]
    /\ meta' = [meta EXCEPT ![p] = Undefined]
    /\ awaited' = [awaited EXCEPT ![p] = 0]
    /\ found' = [found EXCEPT ![p] = "none"]
    /\ toggles' = [toggles EXCEPT ![p] = Undefined]
    /\ LET featureQuery == resolveQuery(req)
       IN  IF IsError(featureQuery)
           THEN /\ pc' = [pc EXCEPT ![p] = "done"]
                /\ query' = [query EXCEPT ![p] = Undefined]
                /\ response' = [response EXCEPT ![p] =
                                   [NoResponse EXCEPT !.status = 400]]
                /\ UNCHANGED nGetClientFeatures
           ELSE /\ pc' = [pc EXCEPT ![p] = "getClientFeatures"]
                /\ query' = [query EXCEPT ![p] =
                                Put(featureQuery, "namePrefix", name)]
                /\ response' = [response EXCEPT ![p] = NoResponse]
                /\ nGetClientFeatures' = nGetClientFeatures + 1
    /\ UNCHANGED <<projectVars, enabled, revision, memoVars, nGetMaxRevisionId, nGetActive,
                   nFeaturesAndSegments>>

\* a handler that clears the resolver cache when the feature is not found
getFeatureToggleResumesClears(p, result) ==
    /\ pc[p] = "getClientFeatures"
    /\ pc' = [pc EXCEPT ![p] = "done"]
    /\ toggles' = [toggles EXCEPT ![p] = Arr(result)]
    /\ LET toggle == find(result, request[p].params.featureName)
       IN  /\ response' = [response EXCEPT ![p] =
                 IF toggle = Undefined THEN [NoResponse EXCEPT !.status = 404]
                 ELSE [NoResponse EXCEPT !.status = 200, !.body = toggle]]
           /\ cache' = IF toggle = Undefined THEN [k \in {} |-> Undefined]
                       ELSE cache
    /\ UNCHANGED <<projectVars, enabled, revision, promises, sincePopulated, storeVars,
                   nRequests, nGetMaxRevisionId, request, userVersion, query,
                   meta, awaited, found>>

\* the store answers: the feature of that exact name is sent, or
\* NotFoundError is thrown
getFeatureToggleResumes(p, result) ==
    /\ pc[p] = "getClientFeatures"
    /\ pc' = [pc EXCEPT ![p] = "done"]
    /\ toggles' = [toggles EXCEPT ![p] = Arr(result)]
    /\ LET toggle == find(result, request[p].params.featureName)
       IN  response' = [response EXCEPT ![p] =
              IF toggle = Undefined THEN [NoResponse EXCEPT !.status = 404]
              ELSE [NoResponse EXCEPT !.status = 200, !.body = toggle]]
    /\ UNCHANGED <<projectVars, enabled, revision, memoVars, storeVars, nRequests,
                   nGetMaxRevisionId, request, userVersion, query, meta, awaited,
                   found>>

\* the store read fails: the rejection is thrown out of the handler
getFeatureToggleFails(p) ==
    /\ pc[p] = "getClientFeatures"
    /\ pc' = [pc EXCEPT ![p] = "done"]
    /\ response' = [response EXCEPT ![p] = [NoResponse EXCEPT !.status = 500]]
    /\ UNCHANGED <<projectVars, enabled, revision, memoVars, storeVars, nRequests,
                   nGetMaxRevisionId, request, userVersion, query, meta, awaited,
                   found, toggles>>

\* ------------------------------------------------------------ ProjectStore

\* what callers pass as a project: more fields than the table takes
ProjectInputs ==
    [id : ProjectIds, name : Names, description : {"d"}, health : {50}]
HealthUpdates == [id : ProjectIds, health : {0, 50}]
EnvironmentConfigs == [environment : Environments, changeRequestsEnabled : BOOLEAN]

fieldToRow(data) ==
    [id |-> data.id, name |-> data.name, description |-> data.description]

\* the columns an insert leaves to the database
InsertedRow(r) ==
    [id |-> r.id, name |-> r.name, description |-> r.description,
     health |-> Undefined, updated_at |-> Undefined,
     change_request_enabled |-> Undefined]

\* a || b of a column value
OrElse(a, b) == IF a = Undefined \/ a = 0 \/ a = FALSE THEN b ELSE a

mapRow(row, now) ==
    [id |-> row.id, name |-> row.name, description |-> row.description,
     health |-> OrElse(row.health, 100),
     updatedAt |-> OrElse(row.updated_at, now),
     changeRequestsEnabled |-> OrElse(row.change_request_enabled, FALSE)]

Fulfilled(v) == [settled |-> "fulfilled", value |-> v]
Rejected == [settled |-> "rejected", value |-> Undefined]

\* One call of the store has run to its end: the caller holds `outcome`,
\* the tables and the log are as given; failed records whether the write
\* was refused by the database.
Returns(op, failed, outcome, newProjects, newLinks, newLog) ==
    /\ nStoreCalls < MaxStoreCalls
    /\ nStoreCalls' = nStoreCalls + 1
    /\ storeResult' = [op |-> op, failed |-> failed, outcome |-> outcome]
    /\ projects' = newProjects
    /\ projectEnvironments' = newLinks
    /\ logger' = newLog
    /\ UNCHANGED controllerVars

\* the time of a call
Now == nStoreCalls + 1

updateHealth(healthUpdate, ok) ==
    LET id == healthUpdate.id
        written == IF id \in DOMAIN projects
                   THEN [projects EXCEPT ![id].health = healthUpdate.health,
                                         ![id].updated_at = Now]
                   ELSE projects
    IN  IF ok
        THEN Returns("updateHealth", FALSE, Fulfilled(Undefined), written,
                     projectEnvironments, logger)
        ELSE Returns("updateHealth", TRUE, Rejected, projects,
                     projectEnvironments, logger)

\* the id is the key of the table: a second insert of an id is refused
create(project, ok) ==
    LET row == InsertedRow(fieldToRow(project))
    IN  IF ok /\ project.id \notin DOMAIN projects
        THEN Returns("create", FALSE, Fulfilled(mapRow(row, Now)),
                     Put(projects, project.id, row), projectEnvironments,
                     logger)
        ELSE Returns("create", TRUE, Rejected, projects, projectEnvironments,
                     logger)

\* an update whose catch block throws the error again after logging it
updateRethrows(data, ok) ==
    LET id == data.id
        r == fieldToRow(data)
        written == IF id \in DOMAIN projects
                   THEN [projects EXCEPT ![id].name = r.name,
                                         ![id].description = r.description]
                   ELSE projects
    IN  IF ok
        THEN Returns("update", FALSE, Fulfilled(Undefined), written,
                     projectEnvironments, logger)
        ELSE Returns("update", TRUE, Rejected, projects, projectEnvironments,
                     Append(logger, "Could not update project, error: "))

update(data, ok) ==
    LET id == data.id
        r == fieldToRow(data)
        written == IF id \in DOMAIN projects
                   THEN [projects EXCEPT ![id].name = r.name,
                                         ![id].description = r.description]
                   ELSE projects
    IN  IF ok
        THEN Returns("update", FALSE, Fulfilled(Undefined), written,
                     projectEnvironments, logger)
        ELSE Returns("update", TRUE, Fulfilled(Undefined), projects,
                     projectEnvironments,
                     Append(logger, "Could not update project, error: "))

deleteAll(ok) ==
    IF ok
    THEN Returns("deleteAll", FALSE, Fulfilled(Undefined),
                 [k \in {} |-> Undefined], projectEnvironments, logger)
    ELSE Returns("deleteAll", TRUE, Rejected, projects, projectEnvironments,
                 logger)

delete(id, ok) ==
    IF ok
    THEN Returns("delete", FALSE, Fulfilled(Undefined), Remove(projects, id),
                 projectEnvironments, logger)
    ELSE Returns("delete", TRUE, Fulfilled(Undefined), projects,
                 projectEnvironments,
                 Append(logger, "Could not delete project, error: "))

deleteEnvironmentForProject(id, environment, ok) ==
    IF ok
    THEN Returns("deleteEnvironmentForProject", FALSE, Fulfilled(Undefined),
                 projects,
                 {l \in projectEnvironments :
                     ~(l.project_id = id /\ l.environment_name = environment)},
                 logger)
    ELSE Returns("deleteEnvironmentForProject", TRUE, Rejected, projects,
                 projectEnvironments, logger)

updateProjectEnvironmentConfig(id, data, ok) ==
    IF ok
    THEN Returns("updateProjectEnvironmentConfig", FALSE, Fulfilled(Undefined),
                 projects,
                 {IF l.project_id = id /\ l.environment_name = data.environment
                  THEN [l EXCEPT !.change_request_enabled =
                                     data.changeRequestsEnabled]
                  ELSE l : l \in projectEnvironments},
                 logger)
    ELSE Returns("updateProjectEnvironmentConfig", TRUE, Fulfilled(Undefined),
                 projects, projectEnvironments,
                 Append(logger, "Could not update project environment, error: "))

\* ------------------------------------------------------------ environment
\* the configuration changes: the revision grows
BumpRevision ==
    /\ revision < MaxRevision
    /\ revision' = revision + 1
    /\ UNCHANGED <<projectVars, enabled, memoVars, storeVars, nRequests, nGetMaxRevisionId,
                   reqVars>>

\* a timer that is one tick late
TimerDueLate(remaining) == remaining < 0

\* a maxAge timer is due when its remaining time reaches 0
TimerDue(remaining) == remaining <= 0

\* timers that run from the moment the entry is set, not from the moment
\* its promise resolves: an entry still waiting expires too
TickFromCall ==
    /\ DOMAIN cache # {}
    /\ cache' = [k \in {x \in DOMAIN cache : ~TimerDue(cache[x].timer - 1)}
                   |-> [cache[k] EXCEPT !.timer = @ - 1]]
    /\ sincePopulated' = [k \in DOMAIN sincePopulated |->
                             IF sincePopulated[k] < maxAge
                             THEN sincePopulated[k] + 1 ELSE sincePopulated[k]]
    /\ UNCHANGED <<projectVars, enabled, promises, revision, storeVars, nRequests,
                   nGetMaxRevisionId, reqVars>>

\* One tick of the clock the armed maxAge timers run on; the timers that
\* become due fire and delete their keys.
Tick ==
    /\ \E k \in DOMAIN cache : ~cache[k].waiting
    /\ cache' = [k \in {x \in DOMAIN cache :
                          cache[x].waiting \/ ~TimerDue(cache[x].timer - 1)}
                   |-> IF cache[k].waiting THEN cache[k]
                       ELSE [cache[k] EXCEPT !.timer = @ - 1]]
    /\ sincePopulated' = [k \in DOMAIN sincePopulated |->
                             IF sincePopulated[k] < maxAge
                             THEN sincePopulated[k] + 1 ELSE sincePopulated[k]]
    /\ UNCHANGED <<projectVars, enabled, promises, revision, storeVars, nRequests,
                   nGetMaxRevisionId, reqVars>>

Inputs == {Undefined} \cup {Str(e) : e \in Etags}

\* the environment of Spec: any enumerated request, MaxRequests of them
Receive ==
    /\ nRequests < MaxRequests
    /\ \E p \in Clients, req \in Requests, inm \in Inputs : Start(p, req, inm)

\* the environment of PollSpec: clients polling the full feature list
\* (no filters), MaxPolls requests
PollRequests == {r \in Requests : resolveQuery(r) = EmptyQuery}
Poll ==
    /\ nRequests < MaxPolls
    /\ \E p \in Clients, req \in PollRequests, inm \in Inputs : Start(p, req, inm)

Handle ==
    \/ \E p \in Clients : getMaxRevisionId(p)
    \/ \E p \in Clients : getMaxRevisionIdFails(p)
    \/ \E p \in Clients : Gate(p)
    \/ \E p \in Clients : Respond(p)
    \/ \E id \in 1..Len(promises), ok \in BOOLEAN : getClientFeaturesSettles(id, ok)
    \/ \E id \in 1..Len(promises), ok \in BOOLEAN : getActiveSettles(id, ok)
    \/ BumpRevision
    \/ Tick

Next == Receive \/ Handle
Spec == Init /\ [][Next]_vars

PollNext == Poll \/ Handle
PollSpec == Init /\ [][PollNext]_vars

\* The normalizer and the fingerprint as functions of the request: every
\* client holds a raw request, resolveQuery is applied to it (the first
\* step of getAll) and calculateMeta to the descriptor it returns.
NormInit ==
    /\ enabled \in BOOLEAN
    /\ cache = [k \in {} |-> Undefined]
    /\ promises = <<>>
    /\ revision = 1
    /\ sincePopulated = [k \in {} |-> 0]
    /\ nRequests = 0
    /\ nGetMaxRevisionId = 0
    /\ nGetClientFeatures = 0
    /\ nGetActive = 0
    /\ nFeaturesAndSegments = 0
    /\ pc = [p \in Clients |-> "idle"]
    /\ request \in [Clients -> RawRequests]
    /\ userVersion = [p \in Clients |-> Undefined]
    /\ query = [p \in Clients |-> Undefined]
    /\ meta = [p \in Clients |-> Undefined]
    /\ awaited = [p \in Clients |-> 0]
    /\ found = [p \in Clients |-> "none"]
    /\ toggles = [p \in Clients |-> Undefined]
    /\ response = [p \in Clients |-> NoResponse]
    /\ projects = [k \in {"default"} |->
                      [id |-> k, name |-> "n1", description |-> "d",
                       health |-> Undefined, updated_at |-> Undefined,
                       change_request_enabled |-> Undefined]]
    /\ projectEnvironments =
          {[project_id |-> "default", environment_name |-> DEFAULT_ENV,
            change_request_enabled |-> FALSE]}
    /\ logger = <<>>
    /\ storeResult = Undefined
    /\ nStoreCalls = 0

Normalize(p) == pc[p] = "idle" /\ Start(p, request[p], Undefined)
Fingerprint(p) == getMaxRevisionId(p)

NormNext ==
    \/ \E p \in Clients : Normalize(p)
    \/ \E p \in Clients : Fingerprint(p)
NormSpec == NormInit /\ [][NormNext]_vars

\* List requests whose clients may go away, under the scheduling of the
\* event loop: a call of the oracle or of a store that is outstanding
\* eventually returns or fails, and a handler whose awaited promise has
\* settled eventually resumes.
LiveNext == Receive \/ Handle \/ \E p \in Clients : Abandon(p)
Fairness ==
    /\ \A p \in Clients : WF_vars(getMaxRevisionId(p) \/ getMaxRevisionIdFails(p))
    /\ \A p \in Clients : WF_vars(Gate(p))
    /\ \A p \in Clients : WF_vars(Respond(p))
    /\ \A id \in 1..MaxRequests :
          WF_vars(\E ok \in BOOLEAN : getClientFeaturesSettles(id, ok))
    /\ \A id \in 1..MaxRequests :
          WF_vars(\E ok \in BOOLEAN : getActiveSettles(id, ok))
LiveSpec == Init /\ [][LiveNext]_vars /\ Fairness

\* Calls of ProjectStore, each of which the database may refuse
StoreNext ==
    \/ \E h \in HealthUpdates, ok \in BOOLEAN : updateHealth(h, ok)
    \/ \E d \in ProjectInputs, ok \in BOOLEAN : create(d, ok)
    \/ \E d \in ProjectInputs, ok \in BOOLEAN : update(d, ok)
    \/ \E ok \in BOOLEAN : deleteAll(ok)
    \/ \E id \in ProjectIds, ok \in BOOLEAN : delete(id, ok)
    \/ \E id \in ProjectIds, e \in Environments, ok \in BOOLEAN :
          deleteEnvironmentForProject(id, e, ok)
    \/ \E id \in ProjectIds, d \in EnvironmentConfigs, ok \in BOOLEAN :
          updateProjectEnvironmentConfig(id, d, ok)
StoreSpec == Init /\ [][StoreNext]_vars

\* the raw requests sent to the single-feature endpoint: the enumerated
\* ones and one whose client supplies a namePrefix of its own
ToggleRequests ==
    Requests \cup {[user |-> Admin,
                    query |-> [NoParams EXCEPT !.namePrefix = Str(<<"g">>)],
                    supportsSegments |-> TRUE]}

\* the environment of ToggleSpec: MaxRequests requests, each a poll of the
\* full feature list or a request for a single feature
ReceiveEither ==
    /\ nRequests < MaxRequests
    /\ \/ \E p \in Clients, req \in PollRequests, inm \in Inputs :
             Start(p, req, inm)
       \/ \E p \in Clients, req \in ToggleRequests, name \in FeatureNames :
             getFeatureToggle(p, req, name)

HandleToggle ==
    \/ \E p \in Clients, result \in StoreResults : getFeatureToggleResumes(p, result)
    \/ \E p \in Clients : getFeatureToggleFails(p)

ToggleNext == ReceiveEither \/ Handle \/ HandleToggle
ToggleSpec == Init /\ [][ToggleNext]_vars

\* ------------------------------------------------------------------ claims
\* the request of client p has passed the gate (line 228 of getAll)
PastGate(p) == meta[p] # Undefined /\ pc[p] \in {"featuresAndSegments", "done"}
\* the request of client p called featuresAndSegments
CalledResolver(p) == awaited[p] # 0

\* C1: a list request whose validator is computed is answered 304 with an
\* empty body, and without the resolver being called, if and only if its
\* If-None-Match value equals the computed etag; in every other case
\* (no header, another fingerprint, another revision) it calls the resolver.
C1_GateIffEqual ==
    \A p \in Clients : PastGate(p) =>
        LET equal == userVersion[p] = Str(meta[p].etag)
        IN  /\ equal => /\ pc[p] = "done"
                        /\ response[p].status = 304
                        /\ response[p].body = Undefined
                        /\ ~CalledResolver(p)
            /\ ~equal => /\ response[p].status # 304
                         /\ CalledResolver(p)
                         /\ awaited[p] \in 1..Len(promises)

\* a client that sent the etag another client had received is answered 304
C1_Witness ==
    \E p, o \in Clients :
        /\ PastGate(p) /\ response[p].status = 304
        /\ response[o].status = 200 /\ userVersion[p] = response[o].ETag

\* C4: for one normalized query, two requests that read different
\* revisions compute different validators, and the one that sent the
\* other's validator as If-None-Match is not answered 304: it calls the
\* resolver, whatever the cache holds.
C4_RevisionSensitivity ==
    \A p, o \in Clients :
        (/\ meta[p] # Undefined /\ meta[o] # Undefined
         /\ query[p] = query[o]
         /\ meta[p].revisionId # meta[o].revisionId)
        => /\ meta[p].etag # meta[o].etag
           /\ (PastGate(o) /\ userVersion[o] = Str(meta[p].etag))
                 => (response[o].status # 304 /\ CalledResolver(o))

\* the second request resent the validator of the first, read a later
\* revision, and got a body although the first one's entry is still cached
C4_Witness ==
    \E p, o \in Clients :
        /\ p # o /\ enabled
        /\ response[p].status = 200
        /\ query[p] = query[o]
        /\ meta[o] # Undefined /\ meta[p].revisionId < meta[o].revisionId
        /\ userVersion[o] = response[p].ETag
        /\ meta[p].etag \in DOMAIN cache
        /\ response[o].status = 200

\* C5: a response sent after the validator was computed (304 or 200)
\* carries the ETag header "<queryHash>:<revisionId>" of the hash of its
\* query and of the revision it read, and the meta of a 200 body holds the
\* etag, queryHash and revisionId that header was made of.
C5_EtagHeader ==
    \A p \in Clients : response[p].status \in {200, 304} =>
        /\ meta[p].revisionId \in 1..revision
        /\ response[p].ETag =
              Str(FormatEtag(hashSum(query[p]), meta[p].revisionId))
        /\ response[p].status = 200 =>
              LET m == response[p].body.meta
              IN  /\ Str(m.etag) = response[p].ETag
                  /\ m.queryHash = hashSum(response[p].body.query)
                  /\ m.etag = FormatEtag(m.queryHash, m.revisionId)
                  /\ m.revisionId = meta[p].revisionId

\* one client got a body, another 304, each with its ETag header
C5_Witness ==
    \E p, o \in Clients :
        /\ response[p].status = 200 /\ response[p].ETag # Undefined
        /\ response[o].status = 304 /\ response[o].ETag # Undefined
        /\ query[p] # EmptyQuery

\* the fingerprint and the revision an etag (a cache key) is made of
EtagHash(etag) == etag[2]
EtagRevision(etag) == etag[4]

\* the request of client p is at the call of featuresAndSegments, or awaits it
Awaiting(p) == pc[p] = "featuresAndSegments"
\* the step in which the request of client p calls featuresAndSegments
Calls(p) == pc[p] = "calculateMeta" /\ pc'[p] = "featuresAndSegments"
\* that call issues a new pair of store reads and awaits it
FreshReads(p) ==
    /\ nGetClientFeatures' = nGetClientFeatures + 1
    /\ nGetActive' = nGetActive + 1
    /\ awaited'[p] = Len(promises) + 1
    /\ promises'[awaited'[p]].state = "pending"
NoReads ==
    /\ nGetClientFeatures' = nGetClientFeatures
    /\ nGetActive' = nGetActive
    /\ promises' = promises

\* C2 as stated: with caching enabled, calls of the memoized resolver for
\* one fingerprint that overlap before any of them completes share a
\* single pair of store reads, also when the callers read different
\* revisions.
C2_Original ==
    enabled =>
        \A p, o \in Clients :
            (/\ Awaiting(p) /\ Awaiting(o)
             /\ meta[p].queryHash = meta[o].queryHash
             /\ promises[awaited[p]].state = "pending"
             /\ promises[awaited[o]].state = "pending")
            => awaited[p] = awaited[o]

\* C2 amended: with caching enabled, calls of the memoized resolver with
\* one validator (same fingerprint, same revision read) that overlap
\* before any of them completes share one promise, there is never more
\* than one pending pair of store reads per validator, and callers of one
\* promise are sent the same features and segments.
C2_SingleFlightPerEtag ==
    enabled =>
        /\ \A p, o \in Clients :
              (/\ Awaiting(p) /\ Awaiting(o)
               /\ meta[p].etag = meta[o].etag
               /\ promises[awaited[p]].state = "pending"
               /\ promises[awaited[o]].state = "pending")
              => awaited[p] = awaited[o]
        /\ \A i, j \in 1..Len(promises) :
              (/\ i # j
               /\ promises[i].state = "pending" /\ promises[j].state = "pending")
              => promises[i].key # promises[j].key
        /\ nGetClientFeatures = Len(promises) /\ nGetActive = Len(promises)
        /\ \A p, o \in Clients :
              (/\ response[p].status = 200 /\ response[o].status = 200
               /\ meta[p].etag = meta[o].etag
               /\ found[o] = "waiting")
              => (\/ awaited[p] # awaited[o]
                  \/ /\ response[p].body.features = response[o].body.features
                     /\ response[p].body.features.call = awaited[p]
                     /\ promises[awaited[p]].value[2] = [call |-> awaited[p]])

\* two clients called with one etag before the reads completed: one pair
\* of store calls, and both were sent its result
C2_Witness ==
    \E p, o \in Clients :
        /\ enabled /\ p # o
        /\ found[p] = "miss" /\ found[o] = "waiting"
        /\ awaited[p] = awaited[o]
        /\ nFeaturesAndSegments = 2
        /\ nGetClientFeatures = 1 /\ nGetActive = 1
        /\ response[p].status = 200 /\ response[o].status = 200

\* C3 as stated: the cache is keyed on the fingerprint alone, so a call
\* for fingerprint F that read revision R' > R, made while the entry that
\* was populated for F at revision R is unexpired, returns that entry and
\* reads nothing from the store.
C3_Original ==
    [][\A p \in Clients :
          (/\ enabled /\ Calls(p)
           /\ \E k \in DOMAIN cache :
                 /\ ~cache[k].waiting
                 /\ EtagHash(k) = meta[p].queryHash
                 /\ EtagRevision(k) < meta[p].revisionId)
          => /\ NoReads
             /\ \E k \in DOMAIN cache :
                   /\ EtagHash(k) = meta[p].queryHash
                   /\ awaited'[p] = cache[k].promise]_vars

\* C3 amended: the cache is keyed on the validator (fingerprint and
\* revision): a call for fingerprint F that read revision R' > R never
\* returns the entry populated for F at revision R, and unless an entry
\* for (F, R') exists it starts a new pair of store reads.
C3_KeyedOnEtag ==
    [][\A p \in Clients :
          (/\ enabled /\ Calls(p)
           /\ \E k \in DOMAIN cache :
                 /\ ~cache[k].waiting
                 /\ EtagHash(k) = meta[p].queryHash
                 /\ EtagRevision(k) < meta[p].revisionId)
          => /\ \A k \in DOMAIN cache :
                   (EtagHash(k) = meta[p].queryHash
                    /\ EtagRevision(k) < meta[p].revisionId)
                   => awaited'[p] # cache[k].promise
             /\ meta[p].etag \notin DOMAIN cache => FreshReads(p)]_vars

\* a call at a later revision missed although the entry of the same
\* fingerprint at the earlier revision is populated and unexpired
C3_Witness ==
    \E p \in Clients :
        /\ enabled /\ Awaiting(p) /\ found[p] = "miss"
        /\ \E k \in DOMAIN cache :
              /\ ~cache[k].waiting
              /\ EtagHash(k) = meta[p].queryHash
              /\ EtagRevision(k) < meta[p].revisionId
              /\ cache[k].promise < awaited[p]

\* C6 as stated: with caching enabled, a call for a fingerprint made
\* while an entry populated for that fingerprint is unexpired returns the
\* cached result and invokes neither store call.
C6_Original ==
    [][\A p \in Clients :
          (/\ enabled /\ Calls(p)
           /\ \E k \in DOMAIN cache :
                 ~cache[k].waiting /\ EtagHash(k) = meta[p].queryHash)
          => NoReads]_vars

\* C6 amended: with caching enabled, a call for a validator (fingerprint
\* and revision) made while the entry populated for that validator is
\* unexpired returns the resolved promise of that entry and invokes
\* neither store call.
C6_HitWithinMaxAge ==
    [][\A p \in Clients :
          (/\ enabled /\ Calls(p)
           /\ meta[p].etag \in DOMAIN cache
           /\ ~cache[meta[p].etag].waiting)
          => /\ NoReads
             /\ cache' = cache
             /\ awaited'[p] = cache[meta[p].etag].promise
             /\ promises[awaited'[p]].state = "resolved"
             /\ promises[awaited'[p]].key = meta[p].etag]_vars

\* a call found the populated entry of its etag and was sent the result
\* of the one pair of store reads made so far
C6_Witness ==
    \E p \in Clients :
        /\ enabled /\ found[p] = "resolved"
        /\ response[p].status = 200
        /\ response[p].body.features.call = 1
        /\ nFeaturesAndSegments = 2 /\ nGetClientFeatures = 1 /\ nGetActive = 1

\* C7: with caching enabled, a call made when maxAge or more has passed
\* since the entry of its key was last populated either finds no entry and
\* starts a new pair of store reads, or finds the entry of a call that came
\* after the expiry and is still in flight, and joins it; the revision need
\* not have changed, the key being the etag of the populated entry.
C7_MaxAgeExpiry ==
    [][\A p \in Clients :
          LET key == meta[p].etag
          IN  (/\ enabled /\ Calls(p)
               /\ key \in DOMAIN sincePopulated
               /\ sincePopulated[key] >= maxAge)
              => \/ /\ key \notin DOMAIN cache
                    /\ FreshReads(p)
                 \/ /\ key \in DOMAIN cache
                    /\ cache[key].waiting
                    /\ NoReads
                    /\ awaited'[p] = cache[key].promise
                    /\ promises[awaited'[p]].state = "pending"]_vars

\* an entry was populated and has expired; one client then missed and
\* started the second pair of store reads, the other joined it
C7_Witness ==
    \E p, o \in Clients :
        /\ enabled /\ p # o
        /\ Awaiting(p) /\ Awaiting(o)
        /\ meta[p].etag = meta[o].etag
        /\ meta[p].etag \in DOMAIN sincePopulated
        /\ sincePopulated[meta[p].etag] >= maxAge
        /\ promises[1].key = meta[p].etag /\ promises[1].state = "resolved"
        /\ found[p] = "miss" /\ found[o] = "waiting"
        /\ awaited[p] = 2 /\ awaited[o] = 2
        /\ nGetClientFeatures = 2 /\ nGetActive = 2

\* C8: with caching disabled, every call of featuresAndSegments makes its
\* own getClientFeatures call and its own getActive call, no two requests
\* await the same promise, and nothing is kept in the cache.
C8_DisabledBypass ==
    ~enabled =>
        /\ nGetClientFeatures = nFeaturesAndSegments
        /\ nGetActive = nFeaturesAndSegments
        /\ Len(promises) = nFeaturesAndSegments
        /\ DOMAIN cache = {}
        /\ \A p \in Clients : CalledResolver(p) => found[p] = "miss"
        /\ \A p, o \in Clients :
              (p # o /\ CalledResolver(p) /\ CalledResolver(o))
              => awaited[p] # awaited[o]

\* caching disabled: two requests with one etag are in flight together and
\* each has made its own pair of store calls
C8_Witness ==
    \E p, o \in Clients :
        /\ ~enabled /\ p # o
        /\ Awaiting(p) /\ Awaiting(o)
        /\ meta[p].etag = meta[o].etag
        /\ promises[awaited[p]].state = "pending"
        /\ promises[awaited[o]].state = "pending"
        /\ nGetClientFeatures = 2 /\ nGetActive = 2

\* a store call of the promise the request of client p awaits has failed
AwaitsFailure(p) ==
    /\ CalledResolver(p)
    /\ \/ promises[awaited[p]].features.st = "failed"
       \/ promises[awaited[p]].segments.st = "failed"

\* C9: once a store call of a shared resolution has failed, every request
\* awaiting that resolution is answered with the failure (status 500, no
\* body) and none is left waiting: its handler can resume at once.
C9_FailureToAllWaiters ==
    \A p \in Clients :
        /\ AwaitsFailure(p) =>
              /\ promises[awaited[p]].state = "rejected"
              /\ Awaiting(p) => ENABLED Respond(p)
              /\ pc[p] = "done" => /\ response[p].status = 500
                                   /\ response[p].body = Undefined
        /\ response[p].status = 200 =>
              /\ promises[awaited[p]].state = "resolved"
              /\ response[p].body.features.call = awaited[p]

\* two requests awaited one resolution, it failed while the other store
\* call was still pending, and both were answered 500
C9_Witness ==
    \E p, o \in Clients :
        /\ enabled /\ p # o
        /\ awaited[p] = awaited[o] /\ AwaitsFailure(p)
        /\ found[o] = "waiting"
        /\ \/ promises[awaited[p]].features.st = "pending"
           \/ promises[awaited[p]].segments.st = "pending"
        /\ response[p].status = 500 /\ response[o].status = 500

\* the last call of resolveFeaturesAndSegments made for a key
LastPromise(key) ==
    LET ids == {i \in 1..Len(promises) : promises[i].key = key}
    IN  CHOOSE i \in ids : \A j \in ids : j <= i

\* C10: a rejected resolution leaves no entry: every entry of the cache
\* holds a promise that is pending (entry waiting) or resolved (entry
\* populated), never a rejected one, and a call whose key was last
\* resolved by a rejected promise starts a new pair of store reads.
C10_NoEntryAfterFailure ==
    [][/\ \A k \in DOMAIN cache' :
             /\ promises'[cache'[k].promise].state # "rejected"
             /\ cache'[k].waiting <=> promises'[cache'[k].promise].state = "pending"
             /\ promises'[cache'[k].promise].key = k
       /\ \A p \in Clients :
             (/\ enabled /\ Calls(p)
              /\ \E i \in 1..Len(promises) :
                    /\ promises[i].key = meta[p].etag
                    /\ promises[LastPromise(meta[p].etag)].state = "rejected")
             => /\ meta[p].etag \notin DOMAIN cache
                /\ FreshReads(p)
                /\ found'[p] = "miss"]_vars

\* a resolution failed and the next call with its key started new reads
C10_Witness ==
    \E p \in Clients :
        /\ enabled /\ found[p] = "miss" /\ awaited[p] = 2
        /\ promises[1].key = meta[p].etag
        /\ promises[1].state = "rejected"
        /\ promises[2].key = meta[p].etag
        /\ meta[p].etag \in DOMAIN cache

\* C11: no partial success. A resolution is resolved only when both of its
\* own store reads succeeded and its value is the pair of their results;
\* when either read failed it is rejected, carries no value and is held by
\* no cache entry. A 200 body is made of the two reads of the resolution
\* the request awaited, and a request that awaited a failed resolution is
\* answered with an error and no payload.
C11_NoPartialSuccess ==
    /\ \A id \in 1..Len(promises) :
          LET pr == promises[id]
          IN  /\ pr.state = "resolved" =>
                    /\ pr.features.st = "ok" /\ pr.segments.st = "ok"
                    /\ pr.value = <<pr.features.data, pr.segments.data>>
                    /\ pr.features.data.call = id
                    /\ pr.segments.data.call = id
              /\ (pr.features.st = "failed" \/ pr.segments.st = "failed") =>
                    /\ pr.state = "rejected"
                    /\ pr.value = Undefined
                    /\ \A k \in DOMAIN cache : cache[k].promise # id
    /\ \A p \in Clients :
          /\ response[p].status = 200 =>
                /\ promises[awaited[p]].state = "resolved"
                /\ response[p].body.features = promises[awaited[p]].features.data
                /\ "segments" \in DOMAIN response[p].body =>
                      response[p].body.segments = promises[awaited[p]].segments.data
          /\ (AwaitsFailure(p) /\ pc[p] = "done") =>
                /\ response[p].status = 500
                /\ response[p].body = Undefined

\* the feature read of a resolution succeeded and its segment read failed:
\* the request was answered 500 without payload and the key is not cached
C11_Witness ==
    \E p \in Clients :
        /\ enabled /\ CalledResolver(p) /\ pc[p] = "done"
        /\ promises[awaited[p]].features.st = "ok"
        /\ promises[awaited[p]].segments.st = "failed"
        /\ response[p].status = 500 /\ response[p].body = Undefined
        /\ meta[p].etag \notin DOMAIN cache

\* the step in which client p sends a list request: the request count
\* grows and no other client's request changes
StartedBy(p) ==
    /\ nRequests' = nRequests + 1
    /\ pc[p] \in {"idle", "done"}
    /\ request'[p] \in Requests
    /\ \A o \in Clients \ {p} :
          /\ pc'[o] = pc[o] /\ request'[o] = request[o]
          /\ userVersion'[o] = userVersion[o] /\ response'[o] = response[o]

\* C12: a list request whose filters fail validation in the normalizer is
\* answered with a validation error (400, no ETag, no body) in the step
\* that receives it: that step reads neither the revision oracle nor the
\* stores and leaves the cache, the resolutions in flight and the call
\* counts as they were.
C12_ValidationBeforeAnyRead ==
    [][\A p \in Clients :
          (StartedBy(p) /\ resolveQuery(request'[p]) = ValidationError)
          => /\ pc'[p] = "done"
             /\ response'[p] = [NoResponse EXCEPT !.status = 400]
             /\ meta'[p] = Undefined /\ awaited'[p] = 0 /\ found'[p] = "none"
             /\ nGetMaxRevisionId' = nGetMaxRevisionId
             /\ nGetClientFeatures' = nGetClientFeatures
             /\ nGetActive' = nGetActive
             /\ nFeaturesAndSegments' = nFeaturesAndSegments
             /\ cache' = cache /\ promises' = promises
             /\ sincePopulated' = sincePopulated]_vars

\* a request with a malformed tag was refused while the cache held the
\* entry of an earlier request, the only one that read the oracle
C12_Witness ==
    \E p \in Clients :
        /\ pc[p] = "done" /\ response[p].status = 400
        /\ resolveQuery(request[p]) = ValidationError
        /\ DOMAIN cache # {}
        /\ nRequests = 2 /\ nGetMaxRevisionId = 1
        /\ nGetClientFeatures = 1 /\ nGetActive = 1

\* resolveQuery returned a descriptor for the request of client p
Normalized(p) == pc[p] \in {"getMaxRevisionId", "calculateMeta"}
\* the elements of a project parameter that paramToArray made a list of
Elements(param) ==
    LET a == paramToArray(param) IN [i \in 1..Len(a.v) |-> a.v[i].v]

\* C13: caller scoping overrides client input. For an API user not
\* authorised for all projects the descriptor's project filter is the
\* caller's project list, whatever project the client supplied; for an API
\* user scoped to one environment the descriptor's environment is that
\* environment, whatever the client supplied; for the other callers the
\* client-supplied project and environment pass through (and are absent
\* from the descriptor when the client supplied none).
C13_ScopingOverrides ==
    \A p \in Clients : Normalized(p) =>
        LET user == request[p].user
            raw == request[p].query
            scopedProjects == user.kind = "ApiUser" /\ ~isAllProjects(user.projects)
            scopedEnvironment == user.kind = "ApiUser" /\ user.environment # ALL
        IN  /\ scopedProjects =>
                  /\ "project" \in DOMAIN query[p]
                  /\ query[p].project = user.projects
            /\ scopedEnvironment =>
                  /\ "environment" \in DOMAIN query[p]
                  /\ query[p].environment = user.environment
            /\ ~scopedProjects =>
                  IF Falsy(raw.project) THEN "project" \notin DOMAIN query[p]
                  ELSE query[p].project = Elements(raw.project)
            /\ ~scopedEnvironment =>
                  IF Falsy(raw.environment) THEN "environment" \notin DOMAIN query[p]
                  ELSE query[p].environment = raw.environment.v

\* a scoped API user asked for project C in environment dev and got its own
\* projects and environment; an unscoped caller asked the same and got it
C13_Witness ==
    \E p, o \in Clients :
        /\ Normalized(p) /\ Normalized(o)
        /\ request[p].user = ApiScoped /\ request[o].user = ApiAll
        /\ request[p].query.project = Str("C")
        /\ request[p].query.environment = Str("dev")
        /\ request[o].query = request[p].query
        /\ query[p].project = <<"A", "B">> /\ query[p].environment = "production"
        /\ query[o].project = <<"C">> /\ query[o].environment = "dev"

\* the descriptor of client p asks for inlined segment constraints
Inlines(q) == "inlineSegmentConstraints" \in DOMAIN q /\ q.inlineSegmentConstraints

\* C14: inlineSegmentConstraints of the descriptor is computed and never
\* taken from the client: the descriptor asks for inlined constraints
\* exactly when the request's declared client spec does not support
\* 'segments', whatever inlineSegmentConstraints parameter the client sent.
C14_InlineComputed ==
    \A p \in Clients : Normalized(p) =>
        /\ Inlines(query[p]) <=> ~request[p].supportsSegments
        /\ "inlineSegmentConstraints" \in DOMAIN query[p] =>
              query[p].inlineSegmentConstraints \in BOOLEAN

\* one client without the capability sent inlineSegmentConstraints=false
\* and got true; one with the capability sent true and got false
C14_Witness ==
    \E p, o \in Clients :
        /\ Normalized(p) /\ Normalized(o)
        /\ ~request[p].supportsSegments
        /\ request[p].query.inlineSegmentConstraints = Str("false")
        /\ Inlines(query[p])
        /\ request[o].supportsSegments
        /\ request[o].query.inlineSegmentConstraints = Str("true")
        /\ query[o] # EmptyQuery
        /\ ~Inlines(query[o])

\* two list parameters hold the same elements, in any order
IsPermutation(a, b) ==
    /\ a.t = "array" /\ b.t = "array"
    /\ Len(a.v) = Len(b.v)
    /\ \E f \in [1..Len(a.v) -> 1..Len(a.v)] :
          /\ \A i, j \in 1..Len(a.v) : f[i] = f[j] => i = j
          /\ \A i \in 1..Len(a.v) : a.v[i] = b.v[f[i]]
\* two requests that differ at most in the order of their project and tag
\* lists
SameUpToOrder(r1, r2) ==
    /\ r1.user = r2.user /\ r1.supportsSegments = r2.supportsSegments
    /\ r1.query.namePrefix = r2.query.namePrefix
    /\ r1.query.environment = r2.query.environment
    /\ r1.query.inlineSegmentConstraints = r2.query.inlineSegmentConstraints
    /\ r1.query.project = r2.query.project
          \/ IsPermutation(r1.query.project, r2.query.project)
    /\ r1.query.tag = r2.query.tag \/ IsPermutation(r1.query.tag, r2.query.tag)

\* C15: two requests whose project filters (or tag filters) hold the same
\* elements in a different order normalize to descriptors with the same
\* fingerprint, and at the same revision get the same validator (the key
\* of the cache entry they would share).
C15_OrderIndependentFingerprint ==
    \A p, o \in Clients :
        (/\ pc[p] = "calculateMeta" /\ pc[o] = "calculateMeta"
         /\ SameUpToOrder(request[p], request[o])
         /\ meta[p].revisionId = meta[o].revisionId)
        => /\ meta[p].queryHash = meta[o].queryHash
           /\ meta[p].etag = meta[o].etag
           /\ normalizer(query[p], meta[p].etag) = normalizer(query[o], meta[o].etag)

\* the optional filters of a list request
Filters == {"project", "tag", "namePrefix", "environment"}
\* a filter supplied empty: the empty string or the empty list
Empty(x) == x = Str("") \/ x = Arr(<<>>)
\* two requests that are equal except that, for some filters, one omits
\* the filter and the other supplies it empty
SameUpToEmpty(r1, r2) ==
    /\ r1.user = r2.user /\ r1.supportsSegments = r2.supportsSegments
    /\ r1.query.inlineSegmentConstraints = r2.query.inlineSegmentConstraints
    /\ \A k \in Filters :
          \/ r1.query[k] = r2.query[k]
          \/ r1.query[k] = Undefined /\ Empty(r2.query[k])
          \/ r2.query[k] = Undefined /\ Empty(r1.query[k])
\* the normalizer has returned or thrown for the request of client p
Resolved(p) == pc[p] # "idle"

\* every optional filter of the request is absent or empty
NoFilter(r) == \A k \in Filters : r.query[k] = Undefined \/ Empty(r.query[k])

\* C16: absence and emptiness are the same 'no filter' state. Two
\* requests that differ only in that one omits a filter the other supplies
\* empty (empty string or empty list) normalize to the identical
\* descriptor; when every optional filter is absent or empty the normalizer
\* returns the canonical empty query: a descriptor without any filter,
\* which is {} for a client that supports segments, and whose fingerprint
\* is the same for every such request of clients of one capability.
C16_AbsentEqualsEmpty ==
    /\ \A p, o \in Clients :
          (Resolved(p) /\ Resolved(o) /\ SameUpToEmpty(request[p], request[o]))
          => /\ Normalized(p) /\ Normalized(o)
             /\ query[p] = query[o]
    /\ \A p \in Clients :
          (Resolved(p) /\ NoFilter(request[p]))
          => /\ Normalized(p)
             /\ \A k \in Filters : k \notin DOMAIN query[p]
             /\ request[p].supportsSegments => query[p] = EmptyQuery
    /\ \A p, o \in Clients :
          (/\ pc[p] = "calculateMeta" /\ pc[o] = "calculateMeta"
           /\ NoFilter(request[p]) /\ NoFilter(request[o])
           /\ request[p].supportsSegments = request[o].supportsSegments)
          => meta[p].queryHash = meta[o].queryHash

\* the request of client p is a request for a single feature, answered
\* after the store returned its list
ToggleAnswered(p) ==
    /\ pc[p] = "done" /\ request[p] # Undefined
    /\ "params" \in DOMAIN request[p]
    /\ toggles[p] # Undefined
\* name is a proper prefix of the name of feature t
IsProperPrefix(name, t) ==
    Len(t.name) > Len(name) /\ SubSeq(t.name, 1, Len(name)) = name

\* C17: getFeatureToggle sends a feature (200) exactly when the list the
\* store returned holds a feature whose name is the requested name, and
\* then sends that feature, the first of that name; when no feature of the
\* list has exactly that name, also when some have it as a proper prefix,
\* it fails with not-found (404) and sends no payload.
C17_ExactNameOrNotFound ==
    \A p \in Clients : ToggleAnswered(p) =>
        LET name == request[p].params.featureName
            list == toggles[p].v
            exact == {i \in 1..Len(list) : list[i].name = name}
        IN  /\ response[p].status \in {200, 404}
            /\ response[p].status = 200 <=> exact # {}
            /\ exact # {} =>
                  /\ response[p].body.name = name
                  /\ \E i \in exact : /\ response[p].body = list[i]
                                      /\ \A j \in exact : i <= j
            /\ exact = {} =>
                  /\ response[p].status = 404
                  /\ response[p].body = Undefined

\* one request found only a feature with the requested name as a proper
\* prefix and got 404; another found the exact name behind it and got it
C17_Witness ==
    \E p, o \in Clients :
        /\ ToggleAnswered(p) /\ ToggleAnswered(o)
        /\ request[p].params.featureName = <<"f">>
        /\ Len(toggles[p].v) = 1
        /\ IsProperPrefix(<<"f">>, toggles[p].v[1])
        /\ response[p].status = 404 /\ response[p].body = Undefined
        /\ request[o].params.featureName = <<"f">>
        /\ Len(toggles[o].v) = 2
        /\ IsProperPrefix(<<"f">>, toggles[o].v[1])
        /\ response[o].status = 200 /\ response[o].body = toggles[o].v[2]

\* C18: on every 200 response of the list endpoint the payload has a
\* top-level segments list if and only if inlineSegmentConstraints of the
\* normalized query is false (the caller supports segments); a payload
\* without segments comes from a store read made with
\* inlineSegmentConstraints true.
C18_SegmentsIffNotInlined ==
    \A p \in Clients : response[p].status = 200 =>
        LET body == response[p].body
        IN  /\ "segments" \in DOMAIN body <=> ~Inlines(query[p])
            /\ "segments" \in DOMAIN body <=> request[p].supportsSegments
            /\ body.query = query[p]
            /\ "segments" \notin DOMAIN body =>
                  /\ Inlines(promises[awaited[p]].query)
                  /\ Inlines(body.features.query)
            /\ "segments" \in DOMAIN body =>
                  /\ ~Inlines(body.features.query)
                  /\ body.segments = promises[awaited[p]].segments.data

\* one client supporting segments got them, one without the capability got
\* a payload without segments whose features were read with inlining
C18_Witness ==
    \E p, o \in Clients :
        /\ response[p].status = 200 /\ response[o].status = 200
        /\ request[p].supportsSegments /\ ~request[o].supportsSegments
        /\ "segments" \in DOMAIN response[p].body
        /\ "segments" \notin DOMAIN response[o].body
        /\ Inlines(response[o].body.features.query)

\* the resolutions in flight for a (fingerprint, revision) pair: the calls
\* of resolveFeaturesAndSegments for that pair whose promise has not settled
InFlight(h, r) ==
    {i \in 1..Len(promises) :
        /\ promises[i].state = "pending"
        /\ EtagHash(promises[i].key) = h /\ EtagRevision(promises[i].key) = r}

GateNotModified(p) ==
    /\ pc[p] = "calculateMeta" /\ pc'[p] # pc[p]
    /\ userVersion[p] = Str(meta[p].etag)

\* C20: the memoized resolver is invoked only on the NEEDS_BODY path. The
\* step that answers a list request NOT_MODIFIED calls neither the
\* resolver nor a store, looks nothing up in the cache and inserts nothing:
\* cache, resolutions in flight and call counts stay as they are; and the
\* revision oracle is read once per request, in the step that receives it.
C20_NotModifiedTouchesNothing ==
    [][/\ \A p \in Clients : GateNotModified(p) =>
             /\ pc'[p] = "done"
             /\ response'[p].status = 304 /\ response'[p].body = Undefined
             /\ awaited'[p] = 0 /\ found'[p] = "none"
             /\ nFeaturesAndSegments' = nFeaturesAndSegments
             /\ nGetClientFeatures' = nGetClientFeatures
             /\ nGetActive' = nGetActive
             /\ nGetMaxRevisionId' = nGetMaxRevisionId
             /\ cache' = cache /\ promises' = promises
             /\ sincePopulated' = sincePopulated
       /\ nGetMaxRevisionId' # nGetMaxRevisionId =>
             /\ nGetMaxRevisionId' = nGetMaxRevisionId + 1
             /\ nRequests' = nRequests + 1
       /\ \A p \in Clients :
             (pc[p] \in {"getMaxRevisionId", "calculateMeta", "featuresAndSegments"}
              /\ pc'[p] # pc[p])
             => nGetMaxRevisionId' = nGetMaxRevisionId]_vars

\* a request was answered 304 while the resolution of another request was
\* in flight: one resolver call and one pair of store reads in all, two
\* oracle reads
C20_Witness ==
    \E p, o \in Clients :
        /\ enabled
        /\ pc[p] = "done" /\ response[p].status = 304
        /\ Awaiting(o) /\ promises[awaited[o]].state = "pending"
        /\ meta[o].etag \in DOMAIN cache
        /\ nFeaturesAndSegments = 1 /\ nGetClientFeatures = 1 /\ nGetActive = 1
        /\ nGetMaxRevisionId = 2

\* the entries of the cache whose key carries a fingerprint other than h
\* are the same before and after the step
OtherEntriesSame(h) ==
    \A k \in DOMAIN cache \cup DOMAIN cache' :
        EtagHash(k) # h =>
            /\ k \in DOMAIN cache /\ k \in DOMAIN cache'
            /\ cache'[k] = cache[k]
\* the fingerprint of the query resolution i was started for
HashOf(i) == hashSum(promises[i].query)

\* C21: requests for different fingerprints are independent. A call of
\* the resolver for fingerprint F changes no cache entry and no resolution
\* of another fingerprint and awaits a resolution started for F; a store
\* read of a resolution for F that settles changes no other resolution and
\* no entry of another fingerprint; an entry leaves the cache only when its
\* own resolution is rejected or its own timer is due; and a request is
\* sent the result, or the failure, of a resolution of its own fingerprint.
C21_FingerprintsIndependent ==
    [][/\ \A p \in Clients : Calls(p) =>
             /\ OtherEntriesSame(meta[p].queryHash)
             /\ \A i \in 1..Len(promises) : promises'[i] = promises[i]
             /\ hashSum(promises'[awaited'[p]].query) = meta[p].queryHash
       /\ \A i \in 1..Len(promises) : promises'[i] # promises[i] =>
             /\ OtherEntriesSame(HashOf(i))
             /\ \A j \in 1..Len(promises) \ {i} : promises'[j] = promises[j]
       /\ \A k \in DOMAIN cache \ DOMAIN cache' :
             \/ promises'[cache[k].promise].state = "rejected"
             \/ ~cache[k].waiting /\ TimerDue(cache[k].timer - 1)
       /\ \A p \in Clients : (Awaiting(p) /\ pc'[p] = "done") =>
             /\ HashOf(awaited[p]) = meta[p].queryHash
             /\ response'[p].status = 200 =>
                   /\ promises[awaited[p]].state = "resolved"
                   /\ hashSum(response'[p].body.features.query) = meta[p].queryHash
             /\ response'[p].status # 200 =>
                   promises[awaited[p]].state = "rejected"]_vars

\* the resolution of one fingerprint failed and its caller was answered
\* 500, while the caller of another fingerprint got its own result, whose
\* entry is still in the cache
C21_Witness ==
    \E p, o \in Clients :
        /\ enabled
        /\ CalledResolver(p) /\ CalledResolver(o)
        /\ meta[p].queryHash # meta[o].queryHash
        /\ meta[p].revisionId = meta[o].revisionId
        /\ awaited[o] < awaited[p]
        /\ response[p].status = 500 /\ response[o].status = 200
        /\ meta[o].etag \in DOMAIN cache
        /\ meta[p].etag \notin DOMAIN cache

\* a step of the handler of a single-feature request of client p: the
\* step that receives it, or the one that resumes it after the store call
ToggleStep(p) ==
    \/ pc[p] # pc'[p] /\ "getClientFeatures" \in {pc[p], pc'[p]}
    \/ /\ nRequests' = nRequests + 1
       /\ pc[p] \in {"idle", "done"}
       /\ request'[p] # Undefined /\ "params" \in DOMAIN request'[p]
       /\ \A o \in Clients \ {p} :
             /\ pc'[o] = pc[o] /\ request'[o] = request[o]
             /\ response'[o] = response[o]

\* C22: the single-feature endpoint is never cached. No step of
\* getFeatureToggle reads the revision oracle, calls the memoized resolver
\* or getActive, or changes the resolver cache or a resolution in flight;
\* every request that passes validation makes its own getClientFeatures
\* call, with the normalized query in which namePrefix is the requested
\* name whatever namePrefix the client sent; and it ends in 200, 404 or
\* 500 without a second store call.
C22_SingleFeatureNeverCached ==
    [][\A p \in Clients : ToggleStep(p) =>
          /\ cache' = cache /\ promises' = promises
          /\ sincePopulated' = sincePopulated
          /\ nGetMaxRevisionId' = nGetMaxRevisionId
          /\ nFeaturesAndSegments' = nFeaturesAndSegments
          /\ nGetActive' = nGetActive
          /\ (pc[p] # "getClientFeatures" /\ pc'[p] = "getClientFeatures") =>
                /\ nGetClientFeatures' = nGetClientFeatures + 1
                /\ query'[p].namePrefix = request'[p].params.featureName
                /\ \A k \in DOMAIN resolveQuery(request'[p]) \ {"namePrefix"} :
                      query'[p][k] = resolveQuery(request'[p])[k]
                /\ meta'[p] = Undefined /\ awaited'[p] = 0
          /\ pc[p] = "getClientFeatures" =>
                /\ nGetClientFeatures' = nGetClientFeatures
                /\ pc'[p] = "done"
                /\ response'[p].status \in {200, 404, 500}
                /\ response'[p].ETag = Undefined]_vars

\* the list cache holds a populated entry; a request for feature f that
\* sent namePrefix g read the store with namePrefix f and ended not-found,
\* and the entry is still there, after one oracle read and two feature reads
C22_Witness ==
    \E p, o \in Clients :
        /\ enabled /\ ToggleAnswered(p)
        /\ request[p].query.namePrefix = Str(<<"g">>)
        /\ request[p].params.featureName = <<"f">>
        /\ query[p].namePrefix = <<"f">>
        /\ response[p].status = 404
        /\ response[o].status = 200 /\ meta[o] # Undefined
        /\ meta[o].etag \in DOMAIN cache /\ ~cache[meta[o].etag].waiting
        /\ nGetMaxRevisionId = 1 /\ nGetClientFeatures = 2 /\ nGetActive = 1

\* C23: the body is never older than its validator. Whenever a list
\* request is answered 200 with a validator of revision R, the store reads
\* its body comes from were issued when the revision oracle already
\* returned R or more (the oracle never decreasing), by a call made after
\* a request had read R; with caching enabled or disabled.
C23_BodyNotOlderThanValidator ==
    \A p \in Clients : (response[p].status = 200 /\ meta[p] # Undefined) =>
        LET pr == promises[awaited[p]]
            R == response[p].body.meta.revisionId
        IN  /\ Str(FormatEtag(meta[p].queryHash, R)) = response[p].ETag
            /\ response[p].body.features = pr.features.data
            /\ pr.startedAt >= R
            /\ pr.startedAt <= revision
            /\ enabled => EtagRevision(pr.key) = R

\* the entry populated at revision 1 is still in the cache; a request that
\* read revision 2 joined the resolution another request had started at
\* revision 2 and got its body
C23_Witness ==
    \E p \in Clients :
        /\ enabled /\ response[p].status = 200 /\ meta[p] # Undefined
        /\ meta[p].revisionId = 2
        /\ found[p] \in {"waiting", "resolved"}
        /\ promises[awaited[p]].startedAt = 2
        /\ \E k \in DOMAIN cache :
              /\ EtagHash(k) = meta[p].queryHash /\ EtagRevision(k) = 1
              /\ ~cache[k].waiting

\* the handler of client p's list request is between two of its steps
Running(p) == pc[p] \in {"getMaxRevisionId", "calculateMeta", "featuresAndSegments"}
\* it has ended, or its client has gone
Ended(p) == pc[p] \in {"done", "abandoned"}

\* C24: provided every revision-oracle call and every store call
\* eventually returns or fails, every list request that is not abandoned
\* eventually completes, with one outcome: 304 without body, 200 with a
\* body, or an error without body. A request awaiting a shared resolution
\* completes once the resolution has settled, also when another request
\* awaiting the same resolution has been abandoned.
C24_EveryRequestCompletes ==
    /\ \A p \in Clients : Running(p) ~> Ended(p)
    /\ \A p \in Clients :
          [](pc[p] = "done" =>
                \/ response[p].status = 304 /\ response[p].body = Undefined
                \/ response[p].status = 200 /\ response[p].body # Undefined
                \/ response[p].status \in {400, 500} /\ response[p].body = Undefined)
    /\ \A p \in Clients :
          []((Awaiting(p) /\ promises[awaited[p]].state # "pending")
                => ENABLED Respond(p))

\* two requests awaited one resolution; one was abandoned, the resolution
\* then failed or resolved and the other request was answered
C24_Witness ==
    \E p, o \in Clients :
        /\ enabled /\ p # o
        /\ pc[p] = "abandoned" /\ pc[o] = "done"
        /\ awaited[p] = awaited[o] /\ awaited[o] # 0
        /\ response[p].status = 0
        /\ response[o].status \in {200, 500}

\* the store operations whose body is a try with a catch that logs
Swallowing == {"update", "delete", "updateProjectEnvironmentConfig"}
\* the store operations that await the write and nothing else
Propagating == {"updateHealth", "create", "deleteAll",
                "deleteEnvironmentForProject"}
StoreStep == nStoreCalls' = nStoreCalls + 1

\* C25: update, delete and updateProjectEnvironmentConfig never hand a
\* database failure to the caller: the failure is logged, the call is
\* fulfilled with undefined exactly as on success, and nothing is written;
\* create, updateHealth, deleteAll and deleteEnvironmentForProject reject
\* when the write fails, and log nothing.
C25_SwallowOrPropagate ==
    [][StoreStep =>
        LET r == storeResult'
        IN  /\ r.op \in Swallowing \cup Propagating
            /\ r.op \in Swallowing =>
                  /\ r.outcome = Fulfilled(Undefined)
                  /\ r.failed => /\ Len(logger') = Len(logger) + 1
                                 /\ UNCHANGED <<projects, projectEnvironments>>
                  /\ ~r.failed => logger' = logger
            /\ r.op \in Propagating =>
                  /\ r.failed <=> r.outcome = Rejected
                  /\ r.failed => UNCHANGED <<projects, projectEnvironments>>
                  /\ logger' = logger]_vars

\* an update was refused by the database, was logged, and its caller saw a
\* normal return; so did the caller of a refused delete before it, and the
\* project that delete named is still in the table
C25_Witness ==
    /\ storeResult # Undefined
    /\ storeResult.op = "update" /\ storeResult.failed
    /\ storeResult.outcome = Fulfilled(Undefined)
    /\ Len(logger) = 2
    /\ logger[2] = "Could not update project, error: "
    /\ logger[1] = "Could not delete project, error: "
    /\ "default" \in DOMAIN projects

====
